---- MODULE Spec2Model ----
(***************************************************************************)
(* Model of intern/cycles/kernel/device/gpu/image.h: the GPU image         *)
(* sampling dispatcher (kernel_image_interp, kernel_image_interp_with_udim)*)
(* and the bicubic reconstructor built from four bilinear taps.            *)
(*                                                                         *)
(* Arithmetic.  The source computes in IEEE binary32.  The model computes  *)
(* the same expressions, operation by operation and in the same order,     *)
(* over exact rationals <<n, d>> (d > 0, lowest terms); there an equality  *)
(* is an equality of the real-valued expressions the code evaluates.  A    *)
(* division by zero yields the value NotFinite instead of a number.  The   *)
(* cubic basis functions are modelled a second time in binary32, each      *)
(* operation rounded to nearest, as the source's expressions are written   *)
(* (no operation fused with another).                                      *)
(*                                                                         *)
(* float2 is a record [x, y] of rationals.  A sampled value of type T is a *)
(* tuple of rationals: <<f>> for T = "float", <<r, g, b, a>> for "float4". *)
(***************************************************************************)
EXTENDS Integers, Sequences, FiniteSets, TLC

VARIABLES pixels, arg_id, arg_uv, arg_duv, pc, result, calls

vars == <<pixels, arg_id, arg_uv, arg_duv, pc, result, calls>>

(***************************************************************************)
(* Bounds of the model.                                                    *)
(***************************************************************************)
\* texel channel values are drawn from 0..MaxTexel
MaxTexel == 1
\* coordinates are drawn from the grid of multiples of 1/UVDen
UVDen == 4
\* screen-space differentials are drawn from 0..MaxDuv (the tile map reads
\* them as a level of detail)
MaxDuv == 1
\* fractional offsets of the basis functions are drawn from the multiples of
\* 2^-FracBits in [0, 1) and from the NearOne binary32 values just below 1
FracBits == 7
NearOne == 2

(***************************************************************************)
(* Exact rational arithmetic standing for float.                           *)
(***************************************************************************)
Abs(n) == IF n < 0 THEN -n ELSE n

RECURSIVE GCD(_, _)
GCD(a, b) == IF b = 0 THEN a ELSE GCD(b, a % b)

NotFinite == <<1, 0>>

IsFinite(a) == a[2] # 0

RNorm(n, d) ==
  LET g == GCD(Abs(n), d) IN <<n \div g, d \div g>>

R(n) == <<n, 1>>

Q(n, d) == RNorm(n, d)

RNeg(a) == <<-a[1], a[2]>>

RAdd(a, b) ==
  IF ~IsFinite(a) \/ ~IsFinite(b) THEN NotFinite
  ELSE LET g == GCD(a[2], b[2])
       IN  RNorm(a[1] * (b[2] \div g) + b[1] * (a[2] \div g), (a[2] \div g) * b[2])

RSub(a, b) == RAdd(a, RNeg(b))

RMul(a, b) ==
  IF ~IsFinite(a) \/ ~IsFinite(b) THEN NotFinite
  ELSE LET g1 == GCD(Abs(a[1]), b[2])
           g2 == GCD(Abs(b[1]), a[2])
       IN  <<(a[1] \div g1) * (b[1] \div g2), (a[2] \div g2) * (b[2] \div g1)>>

RDiv(a, b) ==
  IF ~IsFinite(a) \/ ~IsFinite(b) \/ b[1] = 0 THEN NotFinite
  ELSE RMul(a, IF b[1] < 0 THEN <<-b[2], -b[1]>> ELSE <<b[2], b[1]>>)

RLess(a, b) == a[1] * b[2] < b[1] * a[2]

\* floorf: the greatest integer not above a, as a float
floorf(a) == R(a[1] \div a[2])

make_float2(x, y) == [x |-> x, y |-> y]

zero_float2 == make_float2(R(0), R(0))

make_float4(x, y, z, w) == <<x, y, z, w>>

zero_float4 == make_float4(R(0), R(0), R(0), R(0))

\* T's operator+ and float * T, componentwise for float and float4 alike
VAdd(u, v) == [c \in DOMAIN u |-> RAdd(u[c], v[c])]

VScale(s, v) == [c \in DOMAIN v |-> RMul(s, v[c])]

\* a * u + b * v
Blend(a, b, u, v) == [c \in DOMAIN u |-> RAdd(RMul(a, u[c]), RMul(b, v[c]))]

(***************************************************************************)
(* The cubic B-spline basis functions and the amplitude and offset         *)
(* functions derived from them.                                            *)
(***************************************************************************)
Sixth == Q(1, 6)

cubic_w0(a) ==
  RMul(Sixth, RAdd(RMul(a, RSub(RMul(a, RAdd(RNeg(a), R(3))), R(3))), R(1)))

\* cubic_w1 with one factor a missing from the cubic term
cubic_w1_LostFactor(a) ==
  RMul(Sixth, RAdd(RMul(a, RSub(RMul(R(3), a), R(6))), R(4)))

cubic_w1(a) ==
  RMul(Sixth, RAdd(RMul(RMul(a, a), RSub(RMul(R(3), a), R(6))), R(4)))

cubic_w2(a) ==
  RMul(Sixth, RAdd(RMul(a, RAdd(RMul(a, RAdd(RMul(R(-3), a), R(3))), R(3))), R(1)))

cubic_w3(a) == RMul(Sixth, RMul(RMul(a, a), a))

cubic_g0(a) == RAdd(cubic_w0(a), cubic_w1(a))

cubic_g1(a) == RAdd(cubic_w2(a), cubic_w3(a))

\* cubic_h0 without the offset of one pixel to the left
cubic_h0_NoOffset(a) == RDiv(cubic_w1(a), cubic_g0(a))

cubic_h0(a) == RSub(RDiv(cubic_w1(a), cubic_g0(a)), R(1))

cubic_h1(a) == RAdd(RDiv(cubic_w3(a), cubic_g1(a)), R(1))

(***************************************************************************)
(* The same functions in the arithmetic of the source.  A binary32 value   *)
(* is [s, m, e]: sign s (1 = negative), significand m (0, or 24 bits with  *)
(* the top bit set) and exponent e, standing for (-1)^s * m * 2^e.  Every  *)
(* operation rounds its exact result to the nearest value, ties to even.   *)
(* The values met here are far from the overflow and subnormal ranges,     *)
(* which are not modelled.                                                 *)
(***************************************************************************)
RECURSIVE BitLen(_)
\* the number of bits of the natural number n
BitLen(n) == IF n = 0 THEN 0 ELSE 1 + BitLen(n \div 2)

F32Zero == [s |-> 0, m |-> 0, e |-> 0]

\* what a division by zero yields (an infinity or a NaN): no number
F32NotFinite == [s |-> 0, m |-> 0, e |-> 255]

\* the binary32 value nearest to (-1)^s * (x + t) * 2^e, where 0 <= t < 1 and
\* sticky tells whether t > 0; x has more than 24 bits whenever sticky holds
F32Round(s, x, e, sticky) ==
  IF x = 0 THEN F32Zero
  ELSE IF BitLen(x) <= 24
  THEN [s |-> s, m |-> x * 2^(24 - BitLen(x)), e |-> e - (24 - BitLen(x))]
  ELSE LET k    == BitLen(x) - 24
           q    == x \div 2^k
           r    == x % 2^k
           half == 2^(k - 1)
           up   == r > half \/ (r = half /\ (sticky \/ q % 2 = 1))
           m    == IF up THEN q + 1 ELSE q
       IN  IF m = 2^24 THEN [s |-> s, m |-> 2^23, e |-> e + k + 1]
           ELSE [s |-> s, m |-> m, e |-> e + k]

\* the integer n, and the fraction n / 2^k, as binary32 values (both exact
\* for |n| < 2^24)
F32(n) == F32Round(IF n < 0 THEN 1 ELSE 0, Abs(n), 0, FALSE)

F32Frac(n, k) == F32Round(0, n, -k, FALSE)

F32Neg(a) == [s |-> 1 - a.s, m |-> a.m, e |-> a.e]

\* a * b: the 48-bit product hi * 2^24 + lo of the significands from their
\* 12-bit halves, then rounded
F32Mul(a, b) ==
  IF a.m = 0 \/ b.m = 0 THEN F32Zero
  ELSE LET ah  == a.m \div 2^12
           al  == a.m % 2^12
           bh  == b.m \div 2^12
           bl  == b.m % 2^12
           mid == ah * bl + al * bh
           low == (mid % 2^12) * 2^12 + al * bl
           lo  == low % 2^24
           hi  == ah * bh + mid \div 2^12 + low \div 2^24
       IN  F32Round((a.s + b.s) % 2, hi * 2^6 + lo \div 2^18, a.e + b.e + 18,
                    lo % 2^18 # 0)

\* a + b for a.e >= b.e, both non-zero: b's significand is aligned to a's with
\* six guard bits, the bits shifted out kept as sticky
F32AddAligned(a, b) ==
  LET d      == a.e - b.e
      x      == a.m * 2^6
      y      == IF d <= 6 THEN b.m * 2^(6 - d)
                ELSE IF d - 6 >= 25 THEN 0 ELSE b.m \div 2^(d - 6)
      sticky == d > 6 /\ (d - 6 >= 25 \/ b.m % 2^(d - 6) # 0)
  IN  IF a.s = b.s THEN F32Round(a.s, x + y, a.e - 6, sticky)
      ELSE IF x - y = 0 /\ ~sticky THEN F32Zero
      ELSE IF x - y < 0 THEN F32Round(b.s, y - x, a.e - 6, FALSE)
      ELSE IF sticky THEN F32Round(a.s, x - y - 1, a.e - 6, TRUE)
      ELSE F32Round(a.s, x - y, a.e - 6, FALSE)

F32Add(a, b) ==
  IF a.m = 0 THEN b
  ELSE IF b.m = 0 THEN a
  ELSE IF a.e >= b.e THEN F32AddAligned(a, b) ELSE F32AddAligned(b, a)

F32Sub(a, b) == F32Add(a, F32Neg(b))

RECURSIVE F32Quotient(_, _, _, _)
\* n more bits of the quotient q so far, with remainder r < d: the pair of
\* the quotient and the last remainder
F32Quotient(q, r, d, n) ==
  IF n = 0 THEN <<q, r>>
  ELSE IF 2 * r >= d THEN F32Quotient(2 * q + 1, 2 * r - d, d, n - 1)
  ELSE F32Quotient(2 * q, 2 * r, d, n - 1)

\* a / b for b # 0: 26 fraction bits of the quotient of the significands by
\* long division, the remainder kept as sticky
F32Div(a, b) ==
  IF a.m = 0 THEN F32Zero
  ELSE LET qr == F32Quotient(a.m \div b.m, a.m % b.m, b.m, 26)
       IN  F32Round((a.s + b.s) % 2, qr[1], a.e - b.e - 26, qr[2] # 0)

F32Sixth == F32Div(F32(1), F32(6))

cubic_w0_f32(a) ==
  F32Mul(F32Sixth,
         F32Add(F32Mul(a, F32Sub(F32Mul(a, F32Add(F32Neg(a), F32(3))), F32(3))), F32(1)))

cubic_w1_f32(a) ==
  F32Mul(F32Sixth,
         F32Add(F32Mul(F32Mul(a, a), F32Sub(F32Mul(F32(3), a), F32(6))), F32(4)))

cubic_w2_f32(a) ==
  F32Mul(F32Sixth,
         F32Add(F32Mul(a, F32Add(F32Mul(a, F32Add(F32Mul(F32(-3), a), F32(3))), F32(3))),
                F32(1)))

cubic_w3_f32(a) == F32Mul(F32Sixth, F32Mul(F32Mul(a, a), a))

cubic_g0_f32(a) == F32Add(cubic_w0_f32(a), cubic_w1_f32(a))

cubic_g1_f32(a) == F32Add(cubic_w2_f32(a), cubic_w3_f32(a))

\* the divisions of cubic_h0 and cubic_h1 are by cubic_g0 and cubic_g1: a zero
\* divisor gives no number
cubic_h0_f32(a) ==
  IF cubic_g0_f32(a).m = 0 THEN F32NotFinite
  ELSE F32Sub(F32Div(cubic_w1_f32(a), cubic_g0_f32(a)), F32(1))

cubic_h1_f32(a) ==
  IF cubic_g1_f32(a).m = 0 THEN F32NotFinite
  ELSE F32Add(F32Div(cubic_w3_f32(a), cubic_g1_f32(a)), F32(1))

(***************************************************************************)
(* Kernel data: the image table, the texture table, the tile descriptor    *)
(* table and the UDIM table that kernel_data_fetch and the collaborators   *)
(* of kernel/util/image.h read.  They are read-only during a sample call;  *)
(* the scene below holds one entry for every combination of the fields the *)
(* dispatcher branches on.                                                 *)
(***************************************************************************)
\* KERNEL_IMAGE_NONE, the id and slot of an absent image
KERNEL_IMAGE_NONE == -1

\* UINT_MAX as the bit pattern of a uint field read as a signed int
UINT_MAX == -1

IMAGE_TEXTURE_MISSING_RGBA == make_float4(R(1), R(0), R(1), R(1))

ImageDataTypes ==
  <<"IMAGE_DATA_TYPE_FLOAT4", "IMAGE_DATA_TYPE_BYTE4", "IMAGE_DATA_TYPE_HALF4",
    "IMAGE_DATA_TYPE_FLOAT", "IMAGE_DATA_TYPE_BYTE", "IMAGE_DATA_TYPE_HALF",
    "IMAGE_DATA_TYPE_USHORT4", "IMAGE_DATA_TYPE_USHORT">>

InterpolationTypes ==
  <<"INTERPOLATION_LINEAR", "INTERPOLATION_CLOSEST", "INTERPOLATION_CUBIC",
    "INTERPOLATION_SMART">>

ExtensionTypes == <<"EXTENSION_REPEAT", "EXTENSION_CLIP">>

ImageSizes == <<<<2, 2>>, <<2, 1>>, <<1, 2>>>>

NumSlots == Len(ImageDataTypes) * Len(InterpolationTypes)

Slots == 0 .. NumSlots - 1

\* KernelImageInfo of a slot: every data type with every interpolation mode
image_info(slot) ==
  LET t    == slot % Len(ImageDataTypes)
      size == ImageSizes[(t % Len(ImageSizes)) + 1]
  IN  [width         |-> size[1],
       height        |-> size[2],
       data_type     |-> ImageDataTypes[t + 1],
       interpolation |-> InterpolationTypes[(slot \div Len(ImageDataTypes)) + 1],
       data          |-> slot]

\* the stored average colour of a tiled texture: a fully transparent image,
\* a solid magenta image, and a mid grey one
AverageColors ==
  <<zero_float4, make_float4(R(1), R(0), R(1), R(1)),
    make_float4(Q(1, 2), Q(1, 2), Q(1, 2), R(1))>>

KERNEL_TILE_LOAD_FAILED == [state |-> "LOAD_FAILED", slot |-> KERNEL_IMAGE_NONE]

KERNEL_TILE_LOAD_NONE == [state |-> "NOT_LOADED", slot |-> KERNEL_IMAGE_NONE]

TileLoaded(slot) == [state |-> "LOADED", slot |-> slot]

kernel_tile_descriptor_loaded(d) == d.state = "LOADED"

kernel_tile_descriptor_slot(d) == d.slot

\* the tile descriptor table: a failed tile, an unloaded tile, then a loaded
\* tile for every slot
tile_descriptors(i) ==
  IF i = 0 THEN KERNEL_TILE_LOAD_FAILED
  ELSE IF i = 1 THEN KERNEL_TILE_LOAD_NONE
  ELSE TileLoaded((i - 2) % NumSlots)

NumOffsets == NumSlots + 2

NumDirect == NumSlots + 1

NumTiled == NumOffsets * Len(ExtensionTypes)

TexIds == 0 .. NumDirect + NumTiled - 1

\* KernelImageTexture of a texture id.  Ids below NumDirect address an image
\* directly (id 0 has no image at all); the rest are tiled, one for every
\* descriptor offset and extension, their average colours taken in turn.
image_textures(tex_id) ==
  IF tex_id < NumDirect
  THEN [tile_descriptor_offset |-> UINT_MAX,
        extension              |-> ExtensionTypes[1],
        average_color          |-> AverageColors[3],
        slot                   |-> tex_id - 1]
  ELSE LET k == tex_id - NumDirect
       IN  [tile_descriptor_offset |-> k % NumOffsets,
            extension              |->
              ExtensionTypes[((k \div NumOffsets) % Len(ExtensionTypes)) + 1],
            average_color          |-> AverageColors[(k % Len(AverageColors)) + 1],
            slot                   |-> KERNEL_IMAGE_NONE]

(***************************************************************************)
(* The hardware image objects and the read primitive.                      *)
(***************************************************************************)
Coords == (0 .. 1) \X (0 .. 1)

Images == [Coords -> 0 .. MaxTexel]

\* the 2x2 image of values [[0,1],[1,0]] (scaled to the texel range)
CheckerImage == [c \in Coords |-> IF c[1] = c[2] THEN 0 ELSE MaxTexel]

Clamp(i, lo, hi) == IF i < lo THEN lo ELSE IF i > hi THEN hi ELSE i

\* channel c (1..4) of the texel stored at (i, j) of image object tex; texels
\* outside the image are those of the nearest edge
Channel(tex, c, i, j) ==
  LET ci == Clamp(i, 0, image_info(tex).width - 1)
      cj == Clamp(j, 0, image_info(tex).height - 1)
  IN  IF c = 1 THEN pixels[<<ci, cj>>]
      ELSE IF c = 2 THEN pixels[<<1 - ci, cj>>]
      ELSE IF c = 3 THEN pixels[<<ci, 1 - cj>>]
      ELSE pixels[<<1 - ci, 1 - cj>>]

NumChannels(T) == IF T = "float4" THEN 4 ELSE 1

Texel(T, tex, i, j) == [c \in 1 .. NumChannels(T) |-> R(Channel(tex, c, i, j))]

IFloor(a) == a[1] \div a[2]

\* the bilinear blend of the four texels around (i + fx, j + fy)
BilinearAt(T, tex, i, j, fx, fy) ==
  Blend(RSub(R(1), fy), fy,
        Blend(RSub(R(1), fx), fx, Texel(T, tex, i, j), Texel(T, tex, i + 1, j)),
        Blend(RSub(R(1), fx), fx, Texel(T, tex, i, j + 1), Texel(T, tex, i + 1, j + 1)))

\* the bilinear sample at the texel-space point (xs, ys), texel centres being
\* at the integers
Bilinear(T, tex, xs, ys) ==
  BilinearAt(T, tex, IFloor(xs), IFloor(ys), RSub(xs, floorf(xs)), RSub(ys, floorf(ys)))

\* ccl_gpu_image_object_read_2D<T>(tex, x, y): a fetch at normalized
\* coordinates.  A linear-filtered object interpolates bilinearly between
\* texel centres placed at (integer + 0.5) / size; a closest-filtered one
\* returns the texel the coordinate falls in.
ccl_gpu_image_object_read_2D(T, tex, x, y) ==
  IF ~IsFinite(x) \/ ~IsFinite(y)
  THEN [c \in 1 .. NumChannels(T) |-> NotFinite]
  ELSE IF image_info(tex).interpolation = "INTERPOLATION_CLOSEST"
  THEN Texel(T, tex, IFloor(RMul(x, R(image_info(tex).width))),
                     IFloor(RMul(y, R(image_info(tex).height))))
  ELSE Bilinear(T, tex, RSub(RMul(x, R(image_info(tex).width)), Q(1, 2)),
                        RSub(RMul(y, R(image_info(tex).height)), Q(1, 2)))

\* one entry of the log of collaborator calls made by a sample call
Call(fn, id, T, uv) == [fn |-> fn, id |-> id, T |-> T, uv |-> uv]

ReadCall(T, tex, x, y) == Call("ccl_gpu_image_object_read_2D", tex, T, make_float2(x, y))

(***************************************************************************)
(* Fast bicubic texture lookup using 4 bilinear lookups.  The value is     *)
(* [val, calls]: the value returned and the hardware reads made, in order. *)
(***************************************************************************)
\* lines 81-84: the four reads and their combination
BicubicCombine(T, tex, g0x, g1x, g0y, g1y, x0, x1, y0, y1) ==
  [val   |-> Blend(g0y, g1y,
                   Blend(g0x, g1x, ccl_gpu_image_object_read_2D(T, tex, x0, y0),
                                   ccl_gpu_image_object_read_2D(T, tex, x1, y0)),
                   Blend(g0x, g1x, ccl_gpu_image_object_read_2D(T, tex, x0, y1),
                                   ccl_gpu_image_object_read_2D(T, tex, x1, y1))),
   calls |-> <<ReadCall(T, tex, x0, y0), ReadCall(T, tex, x1, y0),
               ReadCall(T, tex, x0, y1), ReadCall(T, tex, x1, y1)>>]

\* BicubicTaps without the +0.5 that compensates the linear filtering
\* convention
BicubicTaps_NoHalfPixel(T, info, px, py, fx, fy) ==
  BicubicCombine(T, info.data, cubic_g0(fx), cubic_g1(fx), cubic_g0(fy), cubic_g1(fy),
                 RDiv(RAdd(px, cubic_h0(fx)), R(info.width)),
                 RDiv(RAdd(px, cubic_h1(fx)), R(info.width)),
                 RDiv(RAdd(py, cubic_h0(fy)), R(info.height)),
                 RDiv(RAdd(py, cubic_h1(fy)), R(info.height)))

\* lines 72-79: the amplitudes, and the taps with their +0.5 offset
BicubicTaps(T, info, px, py, fx, fy) ==
  BicubicCombine(T, info.data, cubic_g0(fx), cubic_g1(fx), cubic_g0(fy), cubic_g1(fy),
                 RDiv(RAdd(RAdd(px, cubic_h0(fx)), Q(1, 2)), R(info.width)),
                 RDiv(RAdd(RAdd(px, cubic_h1(fx)), Q(1, 2)), R(info.width)),
                 RDiv(RAdd(RAdd(py, cubic_h0(fy)), Q(1, 2)), R(info.height)),
                 RDiv(RAdd(RAdd(py, cubic_h1(fy)), Q(1, 2)), R(info.height)))

\* lines 67-70: the base pixel and the fractional offsets
BicubicSplit(T, info, x, y) ==
  BicubicTaps(T, info, floorf(x), floorf(y), RSub(x, floorf(x)), RSub(y, floorf(y)))

kernel_image_interp_bicubic(T, info, uv) ==
  BicubicSplit(T, info, RSub(RMul(uv.x, R(info.width)), Q(1, 2)),
                        RSub(RMul(uv.y, R(info.height)), Q(1, 2)))

(***************************************************************************)
(* The collaborators of kernel/util/image.h at the dispatcher's boundary.  *)
(***************************************************************************)
\* kernel_image_tile_wrap(extension, uv): wraps uv in place, FALSE = reject.
\* Repeat keeps the fractional part; clip rejects what lies outside [0, 1].
kernel_image_tile_wrap(extension, uv) ==
  IF extension = "EXTENSION_REPEAT"
  THEN [ok |-> TRUE,
        uv |-> make_float2(RSub(uv.x, floorf(uv.x)), RSub(uv.y, floorf(uv.y)))]
  ELSE [ok |-> ~(RLess(uv.x, R(0)) \/ RLess(R(1), uv.x) \/
                 RLess(uv.y, R(0)) \/ RLess(R(1), uv.y)),
        uv |-> uv]

\* the edge length in pixels of a tile
TileSize == 2

\* kernel_image_tile_map(kg, sd, tex, uv, duv, xy): the descriptor of the tile
\* that uv falls in at the level of detail duv selects, and the tile-local
\* pixel coordinate xy
kernel_image_tile_map(tex, uv, duv) ==
  [tile_descriptor |-> tile_descriptors(tex.tile_descriptor_offset + duv),
   xy              |-> make_float2(RMul(uv.x, R(TileSize)), RMul(uv.y, R(TileSize)))]

\* the tile number of the first UDIM tile
UdimBase == 1001

\* the UDIM table: the tiles of a virtual image and the texture of each
UdimTiles(image_id) ==
  IF image_id = -2
  THEN (UdimBase :> NumDirect + 2) @@ (UdimBase + 1 :> 1)
  ELSE (UdimBase :> NumDirect - 1) @@ (UdimBase + 10 :> NumDirect + NumOffsets)

UdimIds == {-3, -2}

\* kernel_image_udim_map(kg, image_id, uv): a plain id maps to itself; a
\* virtual image (id < KERNEL_IMAGE_NONE) maps the tile uv falls in to its
\* texture and moves uv into that tile, or maps to KERNEL_IMAGE_NONE
kernel_image_udim_map(image_id, uv) ==
  IF image_id >= KERNEL_IMAGE_NONE
  THEN [tex_id |-> image_id, uv |-> uv]
  ELSE LET tx   == IFloor(uv.x)
           ty   == IFloor(uv.y)
           tile == UdimBase + 10 * ty + tx
           in   == make_float2(RSub(uv.x, R(tx)), RSub(uv.y, R(ty)))
       IN  IF tx >= 0 /\ tx < 10 /\ ty >= 0 /\ tile \in DOMAIN UdimTiles(image_id)
           THEN [tex_id |-> UdimTiles(image_id)[tile], uv |-> in]
           ELSE [tex_id |-> KERNEL_IMAGE_NONE, uv |-> in]

(***************************************************************************)
(* kernel_image_interp.  The value is [result, calls]: the colour returned *)
(* and the kernel data fetches, collaborator calls and hardware reads      *)
(* made, in order.                                                         *)
(***************************************************************************)
Is4Channel(texture_type) ==
  \/ texture_type = "IMAGE_DATA_TYPE_FLOAT4"
  \/ texture_type = "IMAGE_DATA_TYPE_BYTE4"
  \/ texture_type = "IMAGE_DATA_TYPE_HALF4"
  \/ texture_type = "IMAGE_DATA_TYPE_USHORT4"

\* IsCubic that takes the smart mode for a linear one
IsCubic_NoSmart(interpolation) == interpolation = "INTERPOLATION_CUBIC"

IsCubic(interpolation) ==
  \/ interpolation = "INTERPOLATION_CUBIC"
  \/ interpolation = "INTERPOLATION_SMART"

\* lines 135-141 and 147-153: the bicubic reconstructor for a cubic or smart
\* image, otherwise one direct read
SampleT(T, info, uv) ==
  IF IsCubic(info.interpolation)
  THEN kernel_image_interp_bicubic(T, info, uv)
  ELSE [val   |-> ccl_gpu_image_object_read_2D(T, info.data, uv.x, uv.y),
        calls |-> <<ReadCall(T, info.data, uv.x, uv.y)>>]

\* AsFloat4 that broadcasts the scalar into the alpha channel too
AsFloat4_AlphaF(T, r) ==
  IF T = "float4"
  THEN [result |-> r.val, calls |-> r.calls]
  ELSE [result |-> make_float4(r.val[1], r.val[1], r.val[1], r.val[1]), calls |-> r.calls]

\* lines 136, 140 and 155: a float4 is returned as it is, a float f as
\* (f, f, f, 1)
AsFloat4(T, r) ==
  IF T = "float4"
  THEN [result |-> r.val, calls |-> r.calls]
  ELSE [result |-> make_float4(r.val[1], r.val[1], r.val[1], R(1)), calls |-> r.calls]

\* lines 130-156: the sampling path chosen from the descriptor's data type
\* and interpolation mode, after the descriptor of slot was fetched
kernel_image_interp_sample(T, slot, uv) ==
  AsFloat4(T, SampleT(T, image_info(slot), uv))

SampleSlot(slot, uv) ==
  kernel_image_interp_sample(
    IF Is4Channel(image_info(slot).data_type) THEN "float4" ELSE "float", slot, uv)

InfoCall(slot) == Call("image_info", slot, "", zero_float2)

\* r with the calls made before it
After(pre, r) == [result |-> r.result, calls |-> pre \o r.calls]

\* TiledLoaded that samples at the tile-local pixel coordinate as it is
TiledLoaded_NotNormalized(slot, xy) ==
  After(<<InfoCall(slot)>>, SampleSlot(slot, xy))

\* lines 115-119: the descriptor of the loaded tile, and xy normalized again
TiledLoaded(slot, xy) ==
  After(<<InfoCall(slot)>>,
        SampleSlot(slot, make_float2(RDiv(xy.x, R(image_info(slot).width)),
                                     RDiv(xy.y, R(image_info(slot).height)))))

\* TiledMapped that treats a tile not yet loaded like a failed one
TiledMapped_Collapsed(tex, m) ==
  IF ~kernel_tile_descriptor_loaded(m.tile_descriptor)
  THEN [result |-> IMAGE_TEXTURE_MISSING_RGBA, calls |-> <<>>]
  ELSE TiledLoaded(kernel_tile_descriptor_slot(m.tile_descriptor), m.xy)

\* lines 110-115: the branch on the tile descriptor m.tile_descriptor
TiledMapped(tex, m) ==
  IF ~kernel_tile_descriptor_loaded(m.tile_descriptor)
  THEN [result |-> IF m.tile_descriptor = KERNEL_TILE_LOAD_FAILED
                   THEN IMAGE_TEXTURE_MISSING_RGBA
                   ELSE tex.average_color,
        calls  |-> <<>>]
  ELSE TiledLoaded(kernel_tile_descriptor_slot(m.tile_descriptor), m.xy)

\* TiledWrapped that returns the missing sentinel for a rejected coordinate
TiledWrapped_RejectMissing(tex, duv, w) ==
  IF ~w.ok
  THEN [result |-> IMAGE_TEXTURE_MISSING_RGBA, calls |-> <<>>]
  ELSE After(<<Call("kernel_image_tile_map", duv, "", w.uv)>>,
             TiledMapped(tex, kernel_image_tile_map(tex, w.uv, duv)))

\* lines 102-108: w is what the wrap returned
TiledWrapped(tex, duv, w) ==
  IF ~w.ok
  THEN [result |-> zero_float4, calls |-> <<>>]
  ELSE After(<<Call("kernel_image_tile_map", duv, "", w.uv)>>,
             TiledMapped(tex, kernel_image_tile_map(tex, w.uv, duv)))

\* lines 100-128: the tiled path, or the direct one
InterpEntry(tex, uv, duv) ==
  IF tex.tile_descriptor_offset # UINT_MAX
  THEN After(<<Call("kernel_image_tile_wrap", 0, tex.extension, uv)>>,
             TiledWrapped(tex, duv, kernel_image_tile_wrap(tex.extension, uv)))
  ELSE IF tex.slot = KERNEL_IMAGE_NONE
       THEN [result |-> IMAGE_TEXTURE_MISSING_RGBA, calls |-> <<>>]
       ELSE After(<<InfoCall(tex.slot)>>, SampleSlot(tex.slot, uv))

\* kernel_image_interp that fetches the texture entry before it looks at the id
kernel_image_interp_FetchFirst(tex_id, uv, duv) ==
  After(<<Call("image_textures", tex_id, "", zero_float2)>>,
        IF tex_id = KERNEL_IMAGE_NONE
        THEN [result |-> IMAGE_TEXTURE_MISSING_RGBA, calls |-> <<>>]
        ELSE InterpEntry(image_textures(tex_id), uv, duv))

kernel_image_interp(tex_id, uv, duv) ==
  IF tex_id = KERNEL_IMAGE_NONE
  THEN [result |-> IMAGE_TEXTURE_MISSING_RGBA, calls |-> <<>>]
  ELSE After(<<Call("image_textures", tex_id, "", zero_float2)>>,
             InterpEntry(image_textures(tex_id), uv, duv))

\* lines 166-170: m is what the UDIM map returned
UdimMapped(m, duv) ==
  IF m.tex_id = KERNEL_IMAGE_NONE
  THEN [result |-> IMAGE_TEXTURE_MISSING_RGBA, calls |-> <<>>]
  ELSE kernel_image_interp(m.tex_id, m.uv, duv)

\* kernel_image_interp_with_udim that samples at the uv it was given, not at
\* the uv the UDIM map left
kernel_image_interp_with_udim_GivenUV(image_id, uv, duv) ==
  After(<<Call("kernel_image_udim_map", image_id, "", uv)>>,
        UdimMapped([tex_id |-> kernel_image_udim_map(image_id, uv).tex_id, uv |-> uv], duv))

kernel_image_interp_with_udim(image_id, uv, duv) ==
  After(<<Call("kernel_image_udim_map", image_id, "", uv)>>,
        UdimMapped(kernel_image_udim_map(image_id, uv), duv))

(***************************************************************************)
(* The state machine.  A state holds the kernel's image content, the       *)
(* arguments of one call, and, once the call has run (pc names the         *)
(* function), what it returned and the calls it made.                      *)
(***************************************************************************)
\* the coordinates of the unit square on the grid
UnitGrid == {Q(k, UVDen) : k \in 0 .. UVDen}

\* the grid, one step beyond the unit square on either side
WideGrid == {Q(k, UVDen) : k \in -1 .. UVDen + 1}

NoResult == <<>>

InitCall ==
  /\ pc = "call"
  /\ result = NoResult
  /\ calls = <<>>

\* the arguments of a sample call on the scene, whose image is the 2x2 image
\* of values [[0,1],[1,0]]
Init ==
  /\ pixels = CheckerImage
  /\ arg_id \in UdimIds \cup {KERNEL_IMAGE_NONE} \cup TexIds
  /\ arg_uv \in {make_float2(x, y) : x \in WideGrid, y \in WideGrid}
  /\ arg_duv \in 0 .. MaxDuv
  /\ InitCall

\* the arguments of the bicubic reconstructor: any image content, the
\* descriptor of a slot, and a coordinate of the unit square
InitBicubic ==
  /\ pixels \in Images
  /\ arg_id \in {s \in Slots : image_info(s).interpolation = "INTERPOLATION_CUBIC"}
  /\ arg_uv \in {make_float2(x, y) : x \in UnitGrid, y \in UnitGrid}
  /\ arg_duv = 0
  /\ InitCall

Return(fn, r) ==
  /\ pc' = fn
  /\ result' = r.result
  /\ calls' = r.calls
  /\ UNCHANGED <<pixels, arg_id, arg_uv, arg_duv>>

Interp ==
  /\ pc = "call"
  /\ arg_id >= KERNEL_IMAGE_NONE
  /\ Return("kernel_image_interp", kernel_image_interp(arg_id, arg_uv, arg_duv))

InterpWithUdim ==
  /\ pc = "call"
  /\ Return("kernel_image_interp_with_udim",
            kernel_image_interp_with_udim(arg_id, arg_uv, arg_duv))

BicubicOf(T) ==
  AsFloat4("float4", kernel_image_interp_bicubic(T, image_info(arg_id), arg_uv))

BicubicFloat ==
  /\ pc = "call"
  /\ Return("kernel_image_interp_bicubic<float>", BicubicOf("float"))

BicubicFloat4 ==
  /\ pc = "call"
  /\ Return("kernel_image_interp_bicubic<float4>", BicubicOf("float4"))

\* the basis, amplitude and offset functions at the fractional offset a
CubicOf(a) ==
  [w0 |-> cubic_w0(a), w1 |-> cubic_w1(a), w2 |-> cubic_w2(a), w3 |-> cubic_w3(a),
   g0 |-> cubic_g0(a), g1 |-> cubic_g1(a), h0 |-> cubic_h0(a), h1 |-> cubic_h1(a)]

\* the same functions as the source computes them, in binary32
CubicOf_f32(a) ==
  [w0 |-> cubic_w0_f32(a), w1 |-> cubic_w1_f32(a), w2 |-> cubic_w2_f32(a),
   w3 |-> cubic_w3_f32(a), g0 |-> cubic_g0_f32(a), g1 |-> cubic_g1_f32(a),
   h0 |-> cubic_h0_f32(a), h1 |-> cubic_h1_f32(a)]

\* the fractional offsets a = x - floorf(x) in [0, 1): a grid of binary32
\* values, and the last binary32 values below 1
CubicOffsets ==
  {Q(k, 2^FracBits) : k \in 0 .. 2^FracBits - 1} \cup {Q(2^23 - j, 2^23) : j \in 1 .. NearOne}

InitCubic ==
  /\ pixels = CheckerImage
  /\ arg_id = KERNEL_IMAGE_NONE
  /\ arg_uv \in {make_float2(a, R(0)) : a \in CubicOffsets}
  /\ arg_duv = 0
  /\ InitCall

\* the basis functions as real-valued expressions (on the grid, where the
\* exact values fit the model's integers)
Cubic ==
  /\ pc = "call"
  /\ arg_uv.x[2] <= 2^FracBits
  /\ Return("cubic", [result |-> CubicOf(arg_uv.x), calls |-> <<>>])

\* the basis functions in the source's arithmetic
Cubic_f32 ==
  /\ pc = "call"
  /\ Return("cubic_f32",
            [result |-> CubicOf_f32(F32Frac(arg_uv.x[1], BitLen(arg_uv.x[2]) - 1)),
             calls |-> <<>>])

Next == Interp \/ InterpWithUdim

Spec == Init /\ [][Next]_vars

NextBicubic == BicubicFloat \/ BicubicFloat4

SpecBicubic == InitBicubic /\ [][NextBicubic]_vars

NextCubic == Cubic \/ Cubic_f32

SpecCubic == InitCubic /\ [][NextCubic]_vars

(***************************************************************************)
(* Properties.  Definitions used to state them.                            *)
(***************************************************************************)
RECURSIVE VSum(_, _)
\* the sum of the values terms[1], ..., terms[n]
VSum(terms, n) == IF n = 1 THEN terms[1] ELSE VAdd(VSum(terms, n - 1), terms[n])

BicubicDone == pc \in {"kernel_image_interp_bicubic<float>", "kernel_image_interp_bicubic<float4>"}

BicubicT == IF pc = "kernel_image_interp_bicubic<float>" THEN "float" ELSE "float4"

\* the pixel-space point x = u * W - 0.5, y = v * H - 0.5 of the call's
\* coordinate in the image of slot arg_id, its base pixel and its offsets
ArgX == RSub(RMul(arg_uv.x, R(image_info(arg_id).width)), Q(1, 2))

ArgY == RSub(RMul(arg_uv.y, R(image_info(arg_id).height)), Q(1, 2))

ArgPx == IFloor(ArgX)

ArgPy == IFloor(ArgY)

ArgFx == RSub(ArgX, R(ArgPx))

ArgFy == RSub(ArgY, R(ArgPy))

\* the sum over i, j in 1..n of wx[i] * wy[j] * texel(px - 1 + (i-1), py - 1 + (j-1))
WeightedTexels(T, tex, px, py, wx, wy, n) ==
  VSum([k \in 1 .. n * n |->
          VScale(RMul(wx[((k - 1) % n) + 1], wy[((k - 1) \div n) + 1]),
                 Texel(T, tex, px - 1 + ((k - 1) % n), py - 1 + ((k - 1) \div n)))],
       n * n)

BasisWeights(a) == <<cubic_w0(a), cubic_w1(a), cubic_w2(a), cubic_w3(a)>>

\* the binary32 value x is below zero; is above zero; has a magnitude below
\* 2^k; is at least 2^k
F32Negative(x) == x.s = 1 /\ x.m # 0

F32Positive(x) == x.s = 0 /\ x.m # 0

F32Within(x, k) == x.m = 0 \/ x.e + 24 <= k

F32AtLeast(x, k) == x.s = 0 /\ x.m # 0 /\ x.e + 23 >= k

F32Sum4(r) == F32Add(F32Add(F32Add(r.w0, r.w1), r.w2), r.w3)

\* C8 as stated, of the values the source computes: at every fractional
\* offset a in [0, 1) the four basis weights sum to 1 and so do g0 and g1,
\* every weight is non-negative, g0 and g1 are strictly positive and the
\* divisions of h0 and h1 are by a non-zero value.
C8_Original ==
  pc = "cubic_f32" =>
    /\ F32Sum4(result) = F32(1)
    /\ F32Add(result.g0, result.g1) = F32(1)
    /\ \A w \in {result.w0, result.w1, result.w2, result.w3} : ~F32Negative(w)
    /\ F32Positive(result.g0) /\ F32Positive(result.g1)
    /\ result.h0 # F32NotFinite /\ result.h1 # F32NotFinite

\* C8: partition of unity.  At every fractional offset a in [0, 1), as
\* real-valued expressions the four basis weights sum to 1 and so do g0 and
\* g1, every weight is non-negative, g0 and g1 are strictly positive and h0
\* and h1 are finite.  As the source computes them in binary32, the two sums
\* are within 2^-20 of 1, w1, w2 and w3 are non-negative, w0 is above -2^-22,
\* g0 and g1 are at least 1/8, and the divisions of h0 and h1 are by a
\* non-zero value.
C8_PartitionOfUnity ==
  /\ pc = "cubic" =>
       /\ RAdd(RAdd(RAdd(result.w0, result.w1), result.w2), result.w3) = R(1)
       /\ RAdd(result.g0, result.g1) = R(1)
       /\ \A w \in {result.w0, result.w1, result.w2, result.w3} : ~RLess(w, R(0))
       /\ RLess(R(0), result.g0) /\ RLess(R(0), result.g1)
       /\ IsFinite(result.h0) /\ IsFinite(result.h1)
  /\ pc = "cubic_f32" =>
       /\ F32Within(F32Sub(F32Sum4(result), F32(1)), -20)
       /\ F32Within(F32Sub(F32Add(result.g0, result.g1), F32(1)), -20)
       /\ \A w \in {result.w1, result.w2, result.w3} : ~F32Negative(w)
       /\ F32Negative(result.w0) => F32Within(result.w0, -22)
       /\ F32AtLeast(result.g0, -3) /\ F32AtLeast(result.g1, -3)
       /\ result.h0 # F32NotFinite /\ result.h1 # F32NotFinite

\* a = 1 - 2^-23, where the computed w0 is -(1/6) * 2^-23 rounded
C8_Witness ==
  /\ pc = "cubic_f32"
  /\ arg_uv.x = Q(2^23 - 1, 2^23)
  /\ F32Negative(result.w0)
  /\ result.w0 = [s |-> 1, m |-> 11184811, e |-> -49]

KnotWeights == <<Q(1, 6), Q(2, 3), Q(1, 6)>>

AtKnot == BicubicDone /\ ArgFx = R(0) /\ ArgFy = R(0)

InterpDone == pc = "kernel_image_interp"

UdimDone == pc = "kernel_image_interp_with_udim"

\* the names of the calls made, in order
Fns == [k \in DOMAIN calls |-> calls[k].fn]

CallsTo(fn) == {k \in DOMAIN calls : calls[k].fn = fn}

NoImageAccess ==
  CallsTo("image_info") = {} /\ CallsTo("ccl_gpu_image_object_read_2D") = {}

FourChannelTypes ==
  {"IMAGE_DATA_TYPE_FLOAT4", "IMAGE_DATA_TYPE_BYTE4", "IMAGE_DATA_TYPE_HALF4",
   "IMAGE_DATA_TYPE_USHORT4"}

CubicModes == {"INTERPOLATION_CUBIC", "INTERPOLATION_SMART"}

\* the texture entry of the call, whether it is tiled, and what the wrap and
\* the tile map return for the call's arguments
ArgTex == image_textures(arg_id)

ArgTiled == arg_id # KERNEL_IMAGE_NONE /\ ArgTex.tile_descriptor_offset # UINT_MAX

ArgDirect == arg_id # KERNEL_IMAGE_NONE /\ ArgTex.tile_descriptor_offset = UINT_MAX

ArgWrap == kernel_image_tile_wrap(ArgTex.extension, arg_uv)

ArgTile == kernel_image_tile_map(ArgTex, ArgWrap.uv, arg_duv)

ArgTileState == ArgTile.tile_descriptor.state

\* the slot whose descriptor the call resolves and the coordinate it samples
ArgSampled ==
  \/ ArgDirect /\ ArgTex.slot # KERNEL_IMAGE_NONE
  \/ ArgTiled /\ ArgWrap.ok /\ ArgTileState = "LOADED"

ArgSlot == IF ArgDirect THEN ArgTex.slot ELSE ArgTile.tile_descriptor.slot

ArgSampleUV ==
  IF ArgDirect THEN arg_uv
  ELSE make_float2(RDiv(ArgTile.xy.x, R(image_info(ArgSlot).width)),
                   RDiv(ArgTile.xy.y, R(image_info(ArgSlot).height)))

\* C1: on the tiled path with the wrap accepted, the tile descriptor decides
\* the result: LOAD_FAILED gives the missing sentinel, NOT_LOADED the entry's
\* average colour, both without an image descriptor lookup or a hardware
\* read; LOADED(slot) gives the format selector's result for the descriptor
\* at slot, sampled at xy divided by that descriptor's width and height.
C1_TileDescriptorDispatch ==
  (InterpDone /\ ArgTiled /\ ArgWrap.ok) =>
    /\ ArgTileState \in {"LOAD_FAILED", "NOT_LOADED", "LOADED"}
    /\ ArgTileState = "LOAD_FAILED" =>
         result = IMAGE_TEXTURE_MISSING_RGBA /\ NoImageAccess
    /\ ArgTileState = "NOT_LOADED" =>
         result = ArgTex.average_color /\ NoImageAccess
    /\ ArgTileState = "LOADED" =>
         /\ result = SampleSlot(ArgSlot, ArgSampleUV).result
         /\ \A k \in CallsTo("image_info") : k = 4 /\ calls[k].id = ArgSlot
         /\ \A k \in CallsTo("ccl_gpu_image_object_read_2D") : k > 4 /\ calls[k].id = ArgSlot
         /\ CallsTo("image_info") # {}

C1_Witness ==
  /\ InterpDone /\ ArgTiled /\ ArgWrap.ok
  /\ ArgTileState = "LOADED"
  /\ image_info(ArgSlot).width # image_info(ArgSlot).height
  /\ ArgSampleUV # arg_uv
  /\ result \notin {IMAGE_TEXTURE_MISSING_RGBA, ArgTex.average_color, zero_float4}

\* C2: an absent texture gives the missing sentinel: for tex_id NONE before
\* any table lookup or hardware read, for a non-tiled entry whose slot is
\* NONE without an image descriptor lookup or a hardware read.
C2_AbsentTextureIsMissing ==
  InterpDone =>
    /\ arg_id = KERNEL_IMAGE_NONE =>
         result = IMAGE_TEXTURE_MISSING_RGBA /\ calls = <<>>
    /\ (ArgDirect /\ ArgTex.slot = KERNEL_IMAGE_NONE) =>
         result = IMAGE_TEXTURE_MISSING_RGBA /\ Fns = <<"image_textures">>

C2_Witness ==
  /\ InterpDone
  /\ ArgDirect /\ ArgTex.slot = KERNEL_IMAGE_NONE
  /\ result = IMAGE_TEXTURE_MISSING_RGBA
  /\ RLess(R(1), arg_uv.x)

\* C3: on the tiled path a coordinate the wrap rejects gives the all-zero
\* colour, not the missing sentinel, before the tile map is consulted and
\* before any image descriptor lookup or hardware read; on the direct path the
\* wrap is never applied and the coordinate is sampled as given.
C3_WrapRejectIsZero ==
  InterpDone =>
    /\ (ArgTiled /\ ~ArgWrap.ok) =>
         /\ result = zero_float4
         /\ result # IMAGE_TEXTURE_MISSING_RGBA
         /\ Fns = <<"image_textures", "kernel_image_tile_wrap">>
    /\ ArgDirect =>
         /\ CallsTo("kernel_image_tile_wrap") = {}
         /\ ArgSampled => result = SampleSlot(ArgSlot, arg_uv).result

C3_Witness ==
  /\ InterpDone
  /\ ArgTiled /\ ~ArgWrap.ok
  /\ ArgTex.extension = "EXTENSION_CLIP"
  /\ ArgTex.average_color # zero_float4
  /\ result = zero_float4

\* C4: the UDIM entry point gives the missing sentinel when the UDIM map
\* returns NONE, without a texture, tile or image table lookup or a hardware
\* read; for any other id its result, and the calls it makes, are those of
\* kernel_image_interp on that id with the uv the UDIM map left and the same
\* duv.
C4_UdimDelegates ==
  UdimDone =>
    LET m == kernel_image_udim_map(arg_id, arg_uv)
        r == kernel_image_interp(m.tex_id, m.uv, arg_duv)
    IN  /\ m.tex_id = KERNEL_IMAGE_NONE =>
             result = IMAGE_TEXTURE_MISSING_RGBA /\ Fns = <<"kernel_image_udim_map">>
        /\ m.tex_id # KERNEL_IMAGE_NONE =>
             result = r.result /\ Tail(calls) = r.calls

C4_Witness ==
  /\ UdimDone
  /\ arg_id \in UdimIds
  /\ kernel_image_udim_map(arg_id, arg_uv).tex_id # KERNEL_IMAGE_NONE
  /\ kernel_image_udim_map(arg_id, arg_uv).uv # arg_uv
  /\ CallsTo("ccl_gpu_image_object_read_2D") # {}

\* the scalar the resolved 1-channel descriptor gives at the sampled coordinate
ArgScalar ==
  IF image_info(ArgSlot).interpolation \in CubicModes
  THEN kernel_image_interp_bicubic("float", image_info(ArgSlot), ArgSampleUV).val[1]
  ELSE ccl_gpu_image_object_read_2D("float", ArgSlot, ArgSampleUV.x, ArgSampleUV.y)[1]

\* C6: when the resolved descriptor's data type is not one of the four
\* 4-channel kinds, the result is (f, f, f, 1) with f the scalar obtained for
\* that descriptor, on the bicubic and on the direct-read path.
C6_ChannelBroadcast ==
  (InterpDone /\ ArgSampled /\ image_info(ArgSlot).data_type \notin FourChannelTypes) =>
    /\ LET f == ArgScalar IN result = make_float4(f, f, f, R(1))
    /\ \A k \in CallsTo("ccl_gpu_image_object_read_2D") : calls[k].T = "float"

C6_Witness ==
  /\ InterpDone /\ ArgSampled
  /\ image_info(ArgSlot).data_type = "IMAGE_DATA_TYPE_HALF"
  /\ image_info(ArgSlot).interpolation = "INTERPOLATION_SMART"
  /\ result[1] \notin {R(0), R(1)}
  /\ result = make_float4(result[1], result[1], result[1], R(1))

\* C7: the sampling path is a function of the resolved descriptor's data type
\* and interpolation mode alone: four hardware reads (the bicubic
\* reconstructor) if and only if the mode is cubic or smart, otherwise
\* exactly one; reads of the 4-channel type if and only if the data type is
\* one of the four 4-channel kinds.  Without a resolved descriptor there is no
\* read.
C7_PathFromMetadata ==
  InterpDone =>
    LET reads == CallsTo("ccl_gpu_image_object_read_2D")
    IN  IF ArgSampled
        THEN /\ Cardinality(reads) =
                  IF image_info(ArgSlot).interpolation \in CubicModes THEN 4 ELSE 1
             /\ \A k \in reads :
                  /\ calls[k].id = image_info(ArgSlot).data
                  /\ calls[k].T =
                       IF image_info(ArgSlot).data_type \in FourChannelTypes
                       THEN "float4" ELSE "float"
             /\ Len(result) = 4
        ELSE reads = {}

C7_Witness ==
  /\ InterpDone /\ ArgSampled /\ ArgTiled
  /\ image_info(ArgSlot).interpolation = "INTERPOLATION_SMART"
  /\ image_info(ArgSlot).data_type = "IMAGE_DATA_TYPE_USHORT4"
  /\ Cardinality(CallsTo("ccl_gpu_image_object_read_2D")) = 4
  /\ arg_duv = 1

\* the three fallback conditions of a call
WrapRejected == ArgTiled /\ ~ArgWrap.ok

Absent ==
  \/ arg_id = KERNEL_IMAGE_NONE
  \/ ArgDirect /\ ArgTex.slot = KERNEL_IMAGE_NONE
  \/ ArgTiled /\ ArgWrap.ok /\ ArgTileState = "LOAD_FAILED"

NotLoaded == ArgTiled /\ ArgWrap.ok /\ ArgTileState = "NOT_LOADED"

\* C9 as stated: for every texture entry the colour of a wrap-rejected
\* coordinate (zero), of an absent or load-failed texture (the sentinel) and
\* of a tile not yet loaded (the entry's average colour) are pairwise
\* different.
C9_Original ==
  (InterpDone /\ arg_id # KERNEL_IMAGE_NONE) =>
    /\ zero_float4 # IMAGE_TEXTURE_MISSING_RGBA
    /\ ArgTex.average_color # IMAGE_TEXTURE_MISSING_RGBA
    /\ ArgTex.average_color # zero_float4

\* C9, amended: the three fallback conditions take three branches, a
\* wrap-rejected coordinate returning zero, an absent or load-failed texture
\* the sentinel (which differs from zero) and a tile not yet loaded the
\* entry's stored average colour, whatever that colour is; for an entry whose
\* average colour is neither zero nor the sentinel the returned colour tells
\* which of the three conditions occurred.
C9_FallbacksByBranch ==
  InterpDone =>
    /\ zero_float4 # IMAGE_TEXTURE_MISSING_RGBA
    /\ WrapRejected => result = zero_float4
    /\ Absent => result = IMAGE_TEXTURE_MISSING_RGBA
    /\ NotLoaded => result = ArgTex.average_color
    /\ (/\ WrapRejected \/ Absent \/ NotLoaded
        /\ ArgTiled
        /\ ArgTex.average_color \notin {zero_float4, IMAGE_TEXTURE_MISSING_RGBA}) =>
         /\ result = zero_float4 <=> WrapRejected
         /\ result = IMAGE_TEXTURE_MISSING_RGBA <=> Absent
         /\ result = ArgTex.average_color <=> NotLoaded

C9_Witness ==
  /\ InterpDone
  /\ NotLoaded
  /\ ArgTex.average_color = IMAGE_TEXTURE_MISSING_RGBA
  /\ result = IMAGE_TEXTURE_MISSING_RGBA

====
